---- MODULE Spec2Model ----
(***************************************************************************)
(* Model of src/templates.rs of the sendly Rust SDK: the template entity   *)
(* and its wire decoding, the request builders and their serialization,    *)
(* the list-options query encoding and the TemplatesResource facade.       *)
(*                                                                         *)
(* Strings are TLA+ strings, Option<T> is a record [some, v], a JSON       *)
(* object is the sequence of its (key, value) entries in wire order.       *)
(***************************************************************************)
EXTENDS Integers, Sequences, FiniteSets, TLC

VARIABLES
    opts,       \* the ListTemplatesOptions value under construction
    optCalls,   \* history of the operations applied to opts since new()
    params,     \* [done, v]: the result of to_query_params(opts), once taken
    creq,       \* the CreateTemplateRequest under construction
    ureq,       \* the UpdateTemplateRequest under construction
    reqCalls,   \* history of the setters applied to creq / ureq
    payload,    \* [done, kind, v]: the serialized JSON object, once taken
    wire,       \* a JSON object received from the server
    decoded,    \* [done, target, r]: the result of decoding wire
    client,     \* TemplatesResource.client, the facade's only field
    call,       \* per call slot: the facade operation in progress
    sent        \* the requests the transport has received, in order

vars == <<opts, optCalls, params, creq, ureq, reqCalls, payload,
          wire, decoded, client, call, sent>>

(***************************************************************************)
(* Bounds of the model.                                                    *)
(***************************************************************************)
MaxOptCalls == 3
MaxReqCalls == 3
MaxExtra == 2
MaxCalls == 2

(***************************************************************************)
(* Option<T>                                                               *)
(***************************************************************************)
NoneStr == [some |-> FALSE, v |-> ""]
SomeStr(s) == [some |-> TRUE, v |-> s]
NoneInt == [some |-> FALSE, v |-> 0]
SomeInt(n) == [some |-> TRUE, v |-> n]
NoneBool == [some |-> FALSE, v |-> FALSE]
SomeBool(b) == [some |-> TRUE, v |-> b]

Min(a, b) == IF a <= b THEN a ELSE b

(***************************************************************************)
(* TemplateType and its Default impl.                                      *)
(***************************************************************************)
TemplateType == {"Preset", "Custom"}
DefaultTemplateType == "Custom"

(***************************************************************************)
(* u32::to_string: the decimal rendering, most significant digit first,    *)
(* no sign, no leading zero, "0" for zero.                                 *)
(***************************************************************************)
LimitCap == 100

Digit(d) ==
    CASE d = 0 -> "0" [] d = 1 -> "1" [] d = 2 -> "2" [] d = 3 -> "3"
      [] d = 4 -> "4" [] d = 5 -> "5" [] d = 6 -> "6" [] d = 7 -> "7"
      [] d = 8 -> "8" [] d = 9 -> "9"

RECURSIVE U32ToString(_)
U32ToString(n) ==
    IF n < 10 THEN Digit(n) ELSE U32ToString(n \div 10) \o Digit(n % 10)

(***************************************************************************)
(* ListTemplatesOptions                                                    *)
(***************************************************************************)
\* Sample u32 arguments on both sides of the cap; 2147483647 is the largest
\* value the model checker's integers hold.
LimitArgs == {0, 1, 7, 99, 100, 101, 250, 2147483647}
LocaleArgs == {"", "en"}

ListTemplatesOptions_new ==
    [limit |-> NoneInt, template_type |-> NoneStr, locale |-> NoneStr]

ListTemplatesOptions_limit(self, limit) ==
    [self EXCEPT !.limit = SomeInt(Min(limit, LimitCap))]

ListTemplatesOptions_template_type(self, t) ==
    [self EXCEPT !.template_type = SomeStr(t)]

ListTemplatesOptions_locale(self, locale) ==
    [self EXCEPT !.locale = SomeStr(locale)]

TypeToken(t) ==
    CASE t = "Preset" -> "preset"
      [] t = "Custom" -> "custom"

\* Faulty variant: the type pair is pushed before the limit pair, and the
\* variant's Rust name is sent instead of its wire token.
to_query_params_type_first(self) ==
    LET p1 == IF self.template_type.some
              THEN << <<"type", self.template_type.v>> >> ELSE << >>
        p2 == IF self.limit.some
              THEN Append(p1, <<"limit", U32ToString(self.limit.v)>>) ELSE p1
        p3 == IF self.locale.some
              THEN Append(p2, <<"locale", self.locale.v>>) ELSE p2
    IN  p3

to_query_params(self) ==
    LET p1 == IF self.limit.some
              THEN << <<"limit", U32ToString(self.limit.v)>> >> ELSE << >>
        p2 == IF self.template_type.some
              THEN Append(p1, <<"type", TypeToken(self.template_type.v)>>) ELSE p1
        p3 == IF self.locale.some
              THEN Append(p2, <<"locale", self.locale.v>>) ELSE p2
    IN  p3

OptCall(m, n, s) == [m |-> m, n |-> n, s |-> s]

NoParams == [done |-> FALSE, v |-> << >>]

\* options.limit(l)
SetLimit ==
    /\ ~params.done
    /\ Len(optCalls) < MaxOptCalls
    /\ \E l \in LimitArgs :
        /\ opts' = ListTemplatesOptions_limit(opts, l)
        /\ optCalls' = Append(optCalls, OptCall("limit", l, ""))
    /\ UNCHANGED <<params, creq, ureq, reqCalls, payload, wire, decoded,
                   client, call, sent>>

\* options.template_type(t)
SetTemplateType ==
    /\ ~params.done
    /\ Len(optCalls) < MaxOptCalls
    /\ \E t \in TemplateType :
        /\ opts' = ListTemplatesOptions_template_type(opts, t)
        /\ optCalls' = Append(optCalls, OptCall("template_type", 0, t))
    /\ UNCHANGED <<params, creq, ureq, reqCalls, payload, wire, decoded,
                   client, call, sent>>

\* options.locale(s)
SetLocale ==
    /\ ~params.done
    /\ Len(optCalls) < MaxOptCalls
    /\ \E s \in LocaleArgs :
        /\ opts' = ListTemplatesOptions_locale(opts, s)
        /\ optCalls' = Append(optCalls, OptCall("locale", 0, s))
    /\ UNCHANGED <<params, creq, ureq, reqCalls, payload, wire, decoded,
                   client, call, sent>>

\* The field is public: a caller may store any Option<u32> in it, as in
\* ListTemplatesOptions { limit: Some(l), ..options }.
WriteLimitField ==
    /\ ~params.done
    /\ Len(optCalls) < MaxOptCalls
    /\ \E l \in LimitArgs :
        /\ opts' = [opts EXCEPT !.limit = SomeInt(l)]
        /\ optCalls' = Append(optCalls, OptCall("field:limit", l, ""))
    /\ UNCHANGED <<params, creq, ureq, reqCalls, payload, wire, decoded,
                   client, call, sent>>

\* options.to_query_params(), as list() takes it
ToQueryParams ==
    /\ ~params.done
    /\ params' = [done |-> TRUE, v |-> to_query_params(opts)]
    /\ UNCHANGED <<opts, optCalls, creq, ureq, reqCalls, payload, wire,
                   decoded, client, call, sent>>

(***************************************************************************)
(* JSON values.  An object or an array holds its entries in field a.       *)
(***************************************************************************)
JNull == [t |-> "null", s |-> "", b |-> FALSE, n |-> 0, a |-> << >>]
JStr(x) == [t |-> "string", s |-> x, b |-> FALSE, n |-> 0, a |-> << >>]
JBool(x) == [t |-> "bool", s |-> "", b |-> x, n |-> 0, a |-> << >>]
JNum(x) == [t |-> "number", s |-> "", b |-> FALSE, n |-> x, a |-> << >>]
JArr(x) == [t |-> "array", s |-> "", b |-> FALSE, n |-> 0, a |-> x]
JObj(x) == [t |-> "object", s |-> "", b |-> FALSE, n |-> 0, a |-> x]

Range(f) == {f[i] : i \in DOMAIN f}
Keys(obj) == [i \in DOMAIN obj |-> obj[i][1]]
HasKey(obj, k) == \E i \in DOMAIN obj : obj[i][1] = k
ValueAt(obj, k) == obj[CHOOSE i \in DOMAIN obj : obj[i][1] = k][2]

(***************************************************************************)
(* CreateTemplateRequest / UpdateTemplateRequest and their derived         *)
(* Serialize: fields in declaration order, an Option field skipped when    *)
(* None (skip_serializing_if), is_published renamed to isPublished.        *)
(***************************************************************************)
NameArgs == {"", "Welcome"}
BodyArgs == {"", "Hi {{name}}"}

CreateTemplateRequest_new(name, body) ==
    [name |-> name, body |-> body, locale |-> NoneStr, is_published |-> NoneBool]

CreateTemplateRequest_locale(self, locale) ==
    [self EXCEPT !.locale = SomeStr(locale)]

CreateTemplateRequest_published(self, published) ==
    [self EXCEPT !.is_published = SomeBool(published)]

UpdateTemplateRequest_new ==
    [name |-> NoneStr, body |-> NoneStr, locale |-> NoneStr,
     is_published |-> NoneBool]

UpdateTemplateRequest_name(self, name) ==
    [self EXCEPT !.name = SomeStr(name)]

UpdateTemplateRequest_body(self, body) ==
    [self EXCEPT !.body = SomeStr(body)]

UpdateTemplateRequest_locale(self, locale) ==
    [self EXCEPT !.locale = SomeStr(locale)]

UpdateTemplateRequest_published(self, published) ==
    [self EXCEPT !.is_published = SomeBool(published)]

\* Faulty variant: skip_serializing_if forgotten, None is written as null.
SerOptStrNull(obj, key, o) ==
    Append(obj, <<key, IF o.some THEN JStr(o.v) ELSE JNull>>)

\* one Option<String> field under skip_serializing_if = "Option::is_none"
SerOptStr(obj, key, o) ==
    IF o.some THEN Append(obj, <<key, JStr(o.v)>>) ELSE obj

\* one Option<bool> field under skip_serializing_if = "Option::is_none"
SerOptBool(obj, key, o) ==
    IF o.some THEN Append(obj, <<key, JBool(o.v)>>) ELSE obj

SerializeCreateTemplateRequest(r) ==
    LET f2 == << <<"name", JStr(r.name)>>, <<"body", JStr(r.body)>> >>
        f3 == SerOptStr(f2, "locale", r.locale)
    IN  SerOptBool(f3, "isPublished", r.is_published)

SerializeUpdateTemplateRequest(r) ==
    LET f1 == SerOptStr(<< >>, "name", r.name)
        f2 == SerOptStr(f1, "body", r.body)
        f3 == SerOptStr(f2, "locale", r.locale)
    IN  SerOptBool(f3, "isPublished", r.is_published)

ReqCall(k, m, v) == [k |-> k, m |-> m, v |-> v]

NoPayload == [done |-> FALSE, kind |-> "", v |-> << >>]

ReqIdle == ~payload.done /\ Len(reqCalls) < MaxReqCalls

UnchangedButRequests ==
    UNCHANGED <<opts, optCalls, params, wire, decoded, client, call, sent>>

\* create_request.locale(s)
CreateSetLocale ==
    /\ ReqIdle
    /\ \E s \in LocaleArgs :
        /\ creq' = CreateTemplateRequest_locale(creq, s)
        /\ reqCalls' = Append(reqCalls, ReqCall("create", "locale", JStr(s)))
    /\ UNCHANGED <<ureq, payload>>
    /\ UnchangedButRequests

\* create_request.published(b)
CreateSetPublished ==
    /\ ReqIdle
    /\ \E b \in BOOLEAN :
        /\ creq' = CreateTemplateRequest_published(creq, b)
        /\ reqCalls' = Append(reqCalls, ReqCall("create", "published", JBool(b)))
    /\ UNCHANGED <<ureq, payload>>
    /\ UnchangedButRequests

\* update_request.name(s)
UpdateSetName ==
    /\ ReqIdle
    /\ \E s \in NameArgs :
        /\ ureq' = UpdateTemplateRequest_name(ureq, s)
        /\ reqCalls' = Append(reqCalls, ReqCall("update", "name", JStr(s)))
    /\ UNCHANGED <<creq, payload>>
    /\ UnchangedButRequests

\* update_request.body(s)
UpdateSetBody ==
    /\ ReqIdle
    /\ \E s \in BodyArgs :
        /\ ureq' = UpdateTemplateRequest_body(ureq, s)
        /\ reqCalls' = Append(reqCalls, ReqCall("update", "body", JStr(s)))
    /\ UNCHANGED <<creq, payload>>
    /\ UnchangedButRequests

\* update_request.locale(s)
UpdateSetLocale ==
    /\ ReqIdle
    /\ \E s \in LocaleArgs :
        /\ ureq' = UpdateTemplateRequest_locale(ureq, s)
        /\ reqCalls' = Append(reqCalls, ReqCall("update", "locale", JStr(s)))
    /\ UNCHANGED <<creq, payload>>
    /\ UnchangedButRequests

\* update_request.published(b)
UpdateSetPublished ==
    /\ ReqIdle
    /\ \E b \in BOOLEAN :
        /\ ureq' = UpdateTemplateRequest_published(ureq, b)
        /\ reqCalls' = Append(reqCalls, ReqCall("update", "published", JBool(b)))
    /\ UNCHANGED <<creq, payload>>
    /\ UnchangedButRequests

\* serde_json::to_value(&create_request), as post() takes the body
SerializeCreate ==
    /\ ~payload.done
    /\ payload' = [done |-> TRUE, kind |-> "create",
                   v |-> SerializeCreateTemplateRequest(creq)]
    /\ UNCHANGED <<creq, ureq, reqCalls>>
    /\ UnchangedButRequests

\* serde_json::to_value(&update_request), as patch() takes the body
SerializeUpdate ==
    /\ ~payload.done
    /\ payload' = [done |-> TRUE, kind |-> "update",
                   v |-> SerializeUpdateTemplateRequest(ureq)]
    /\ UNCHANGED <<creq, ureq, reqCalls>>
    /\ UnchangedButRequests

(***************************************************************************)
(* Deserialize, as serde derives it for the structs of the file and        *)
(* serde_json drives it over a JSON object.                                *)
(*                                                                         *)
(* A field table lists, per field in declaration order, its name, its      *)
(* alias ("" for none), its type and whether it carries #[serde(default)]. *)
(***************************************************************************)
Field(name, alias, ty, dflt) ==
    [name |-> name, alias |-> alias, ty |-> ty, dflt |-> dflt]

TemplateFields ==
    << Field("id", "", "String", FALSE),
       Field("name", "", "String", FALSE),
       Field("body", "", "String", FALSE),
       Field("template_type", "type", "TemplateType", TRUE),
       Field("locale", "", "OptString", TRUE),
       Field("variables", "", "VecString", TRUE),
       Field("is_default", "isDefault", "bool", TRUE),
       Field("is_published", "isPublished", "bool", TRUE),
       Field("created_at", "createdAt", "OptString", TRUE),
       Field("updated_at", "updatedAt", "OptString", TRUE) >>

TemplateListFields ==
    << Field("templates", "", "VecTemplate", FALSE),
       Field("pagination", "", "OptTemplatePagination", TRUE) >>

TemplatePaginationFields ==
    << Field("limit", "", "i32", TRUE),
       Field("has_more", "hasMore", "bool", TRUE) >>

DeleteTemplateResponseFields ==
    << Field("success", "", "bool", FALSE),
       Field("message", "", "OptString", TRUE) >>

FieldsOf(target) ==
    CASE target = "Template" -> TemplateFields
      [] target = "TemplateList" -> TemplateListFields
      [] target = "TemplatePagination" -> TemplatePaginationFields
      [] target = "DeleteTemplateResponse" -> DeleteTemplateResponseFields

DecOk(v) == [ok |-> TRUE, v |-> v, err |-> [kind |-> "", field |-> ""]]
DecErr(kind, field) ==
    [ok |-> FALSE, v |-> << >>, err |-> [kind |-> kind, field |-> field]]

\* Faulty variant: the aliases are not looked at.
FieldOfKeyNameOnly(fields, key) ==
    IF \E f \in DOMAIN fields : fields[f].name = key
    THEN CHOOSE f \in DOMAIN fields : fields[f].name = key
    ELSE 0

\* The field a wire key names: its index in the table, 0 for a key that is
\* neither a field's name nor its alias (such a key is skipped).
FieldOfKey(fields, key) ==
    IF \E f \in DOMAIN fields :
          fields[f].name = key \/ (fields[f].alias # "" /\ fields[f].alias = key)
    THEN CHOOSE f \in DOMAIN fields :
          fields[f].name = key \/ (fields[f].alias # "" /\ fields[f].alias = key)
    ELSE 0

\* #[serde(rename_all = "lowercase")] enum TemplateType: a string naming a
\* variant, or the one-entry object {"<variant>": null}; any other string
\* is an unknown variant.
\* Faulty variant: #[serde(other)] on Custom, unknown tokens become Custom.
VariantOfTokenLenient(s) ==
    CASE s = "preset" -> DecOk("Preset")
      [] OTHER -> DecOk("Custom")

VariantOfToken(s) ==
    CASE s = "preset" -> DecOk("Preset")
      [] s = "custom" -> DecOk("Custom")
      [] OTHER -> DecErr("unknown_variant", "")

DecodeTemplateType(jv) ==
    CASE jv.t = "string" -> VariantOfToken(jv.s)
      [] jv.t = "object" ->
            IF Len(jv.a) # 1 THEN DecErr("invalid_value", "")
            ELSE IF ~VariantOfToken(jv.a[1][1]).ok
                 THEN VariantOfToken(jv.a[1][1])
            ELSE IF jv.a[1][2].t # "null" THEN DecErr("invalid_type", "")
            ELSE VariantOfToken(jv.a[1][1])
      [] OTHER -> DecErr("invalid_type", "")

IsOptionType(ty) == ty \in {"OptString", "OptTemplatePagination"}

\* Default::default() of a field type
DefaultOf(ty) ==
    CASE ty = "String" -> ""
      [] ty = "TemplateType" -> DefaultTemplateType
      [] ty = "OptString" -> NoneStr
      [] ty = "VecString" -> << >>
      [] ty = "bool" -> FALSE
      [] ty = "i32" -> 0
      [] ty = "VecTemplate" -> << >>
      [] ty = "OptTemplatePagination" -> [some |-> FALSE, v |-> << >>]

\* Faulty variant: #[serde(default)] forgotten, a missing field is an error
\* unless it is an Option.
MissingFieldStrict(f) ==
    IF IsOptionType(f.ty) THEN DecOk(DefaultOf(f.ty))
    ELSE DecErr("missing_field", f.name)

\* A field no key of the object named: its default under #[serde(default)],
\* None for an Option, a missing-field error otherwise.
MissingField(f) ==
    IF f.dflt THEN DecOk(DefaultOf(f.ty))
    ELSE IF IsOptionType(f.ty) THEN DecOk(DefaultOf(f.ty))
    ELSE DecErr("missing_field", f.name)

RECURSIVE DecodeValue(_, _)
RECURSIVE DecodeSeq(_, _, _, _)
RECURSIVE VisitMap(_, _, _, _)

\* The struct built once every key is visited: the first field, in
\* declaration order, that is missing without a default fails the decode.
FinishStruct(fields, acc) ==
    LET got == [f \in DOMAIN fields |->
                   IF acc[f].set THEN DecOk(acc[f].v) ELSE MissingField(fields[f])]
        bad == {f \in DOMAIN fields : ~got[f].ok}
    IN  IF bad # {}
        THEN got[CHOOSE f \in bad : \A g \in bad : f <= g]
        ELSE DecOk([n \in {fields[f].name : f \in DOMAIN fields} |->
                      got[CHOOSE f \in DOMAIN fields : fields[f].name = n].v])

\* Faulty variant: no duplicate check, the last value of a field wins.
VisitEntryLastWins(fields, obj, i, acc) ==
    LET f == FieldOfKey(fields, obj[i][1])
        d == DecodeValue(fields[f].ty, obj[i][2])
    IN  IF f = 0 THEN VisitMap(fields, obj, i + 1, acc)
        ELSE IF ~d.ok THEN DecErr(d.err.kind, fields[f].name)
        ELSE VisitMap(fields, obj, i + 1,
                      [acc EXCEPT ![f] = [set |-> TRUE, v |-> d.v]])

\* A key that names a field already filled, under either spelling, is a
\* duplicate-field error, raised before the value is looked at.
VisitEntry(fields, obj, i, acc) ==
    LET f == FieldOfKey(fields, obj[i][1])
        d == DecodeValue(fields[f].ty, obj[i][2])
    IN  IF f = 0 THEN VisitMap(fields, obj, i + 1, acc)
        ELSE IF acc[f].set THEN DecErr("duplicate_field", fields[f].name)
        ELSE IF ~d.ok THEN DecErr(d.err.kind, fields[f].name)
        ELSE VisitMap(fields, obj, i + 1,
                      [acc EXCEPT ![f] = [set |-> TRUE, v |-> d.v]])

VisitMap(fields, obj, i, acc) ==
    IF i > Len(obj) THEN FinishStruct(fields, acc)
    ELSE VisitEntry(fields, obj, i, acc)

DecodeStruct(fields, jv) ==
    IF jv.t # "object" THEN DecErr("invalid_type", "")
    ELSE VisitMap(fields, jv.a, 1, [f \in DOMAIN fields |-> [set |-> FALSE, v |-> 0]])

\* Vec<T>: every element decodes, or the first failure is the result
DecodeSeq(ty, arr, i, acc) ==
    IF i > Len(arr) THEN DecOk(acc)
    ELSE LET d == DecodeValue(ty, arr[i])
         IN  IF ~d.ok THEN d ELSE DecodeSeq(ty, arr, i + 1, Append(acc, d.v))

DecodeOption(ty, jv) ==
    IF jv.t = "null" THEN DecOk(DefaultOf(ty))
    ELSE LET d == DecodeValue(IF ty = "OptString" THEN "String" ELSE "TemplatePagination", jv)
         IN  IF d.ok THEN DecOk([some |-> TRUE, v |-> d.v]) ELSE d

DecodeValue(ty, jv) ==
    CASE ty = "String" ->
            IF jv.t = "string" THEN DecOk(jv.s) ELSE DecErr("invalid_type", "")
      [] ty = "bool" ->
            IF jv.t = "bool" THEN DecOk(jv.b) ELSE DecErr("invalid_type", "")
      [] ty = "i32" ->
            IF jv.t = "number" THEN DecOk(jv.n) ELSE DecErr("invalid_type", "")
      [] ty = "TemplateType" -> DecodeTemplateType(jv)
      [] ty = "VecString" ->
            IF jv.t = "array" THEN DecodeSeq("String", jv.a, 1, << >>)
            ELSE DecErr("invalid_type", "")
      [] ty = "VecTemplate" ->
            IF jv.t = "array" THEN DecodeSeq("Template", jv.a, 1, << >>)
            ELSE DecErr("invalid_type", "")
      [] IsOptionType(ty) -> DecodeOption(ty, jv)
      [] OTHER -> DecodeStruct(FieldsOf(ty), jv)

\* response.json::<T>() over the object wire
from_json(target, obj) == DecodeValue(target, JObj(obj))

is_preset(t) == t.template_type = "Preset"
is_custom(t) == t.template_type = "Custom"

(***************************************************************************)
(* Wire objects handed to the decoder: a base of required entries and up   *)
(* to MaxExtra further entries, in wire order.                             *)
(***************************************************************************)
Targets ==
    {"Template", "TemplateList", "TemplatePagination", "DeleteTemplateResponse"}

RequiredTemplate ==
    << <<"id", JStr("tmpl_123")>>, <<"name", JStr("Welcome")>>,
       <<"body", JStr("Hi {{name}}")>> >>

\* the object with entry i left out
Without(obj, i) == [j \in 1..(Len(obj) - 1) |-> IF j < i THEN obj[j] ELSE obj[j + 1]]

Bases(target) ==
    IF target = "Template"
    THEN {RequiredTemplate, << >>} \cup {Without(RequiredTemplate, i) : i \in 1..3}
    ELSE {<< >>}

TypeValues ==
    {JStr("preset"), JStr("custom"), JStr("Preset"), JStr("bogus")}

TemplateEntries ==
    ({"template_type", "type"} \X TypeValues)
    \cup ({"is_default", "isDefault", "is_published", "isPublished"}
            \X {JBool(TRUE), JBool(FALSE)})
    \cup ({"created_at", "createdAt", "updated_at", "updatedAt"}
            \X {JStr("2024-01-01T00:00:00Z")})
    \cup { <<"id", JNum(5)>>,
           <<"type", JNull>>,
           <<"type", JObj(<< <<"preset", JNull>> >>)>>,
           <<"locale", JStr("en")>>,
           <<"locale", JNull>>,
           <<"variables", JArr(<<JStr("name")>>)>>,
           <<"isPublished", JStr("yes")>>,
           <<"created_at", JNull>>,
           <<"extra", JNum(1)>> }

TemplatePaginationEntries ==
    ({"has_more", "hasMore"} \X {JBool(TRUE), JBool(FALSE)})
    \cup { <<"limit", JNum(20)>>, <<"limit", JStr("20")>>,
           <<"hasMore", JNum(1)>>, <<"extra", JNum(1)>> }

TemplateListEntries ==
    { <<"templates", JArr(<< >>)>>,
      <<"templates", JArr(<<JObj(RequiredTemplate)>>)>>,
      <<"templates", JArr(<<JObj(Append(RequiredTemplate, <<"type", JStr("preset")>>))>>)>>,
      <<"templates", JArr(<<JObj(Tail(RequiredTemplate))>>)>>,
      <<"templates", JStr("none")>>,
      <<"pagination", JNull>>,
      <<"pagination", JObj(<< >>)>>,
      <<"pagination", JObj(<< <<"limit", JNum(20)>>, <<"hasMore", JBool(TRUE)>> >>)>>,
      <<"pagination", JObj(<< <<"has_more", JBool(FALSE)>>, <<"hasMore", JBool(TRUE)>> >>)>>,
      <<"extra", JNum(1)>> }

DeleteTemplateResponseEntries ==
    { <<"success", JBool(TRUE)>>, <<"success", JBool(FALSE)>>,
      <<"success", JStr("yes")>>, <<"message", JStr("deleted")>>,
      <<"message", JNull>>, <<"extra", JNum(1)>> }

Entries(target) ==
    CASE target = "Template" -> TemplateEntries
      [] target = "TemplateList" -> TemplateListEntries
      [] target = "TemplatePagination" -> TemplatePaginationEntries
      [] target = "DeleteTemplateResponse" -> DeleteTemplateResponseEntries

NoDecoded(target) == [done |-> FALSE, target |-> target, extra |-> 0, r |-> DecErr("", "")]

UnchangedButDecode ==
    UNCHANGED <<opts, optCalls, params, creq, ureq, reqCalls, payload,
                client, call, sent>>

\* the server writes one more entry into the response object
AddEntry ==
    /\ ~decoded.done
    /\ decoded.extra < MaxExtra
    /\ \E e \in Entries(decoded.target) : wire' = Append(wire, e)
    /\ decoded' = [decoded EXCEPT !.extra = @ + 1]
    /\ UnchangedButDecode

\* response.json::<T>() for T the target type
Decode ==
    /\ ~decoded.done
    /\ decoded' = [decoded EXCEPT !.done = TRUE,
                                  !.r = from_json(decoded.target, wire)]
    /\ UNCHANGED wire
    /\ UnchangedButDecode

(***************************************************************************)
(* TemplatesResource: the facade over the transport client.                *)
(*                                                                         *)
(* A call slot holds one facade operation: idle, then awaiting the         *)
(* transport (pc = "transport"), then awaiting the body decode             *)
(* (pc = "decoding"), then returned (pc = "done").  nreq and ndec count    *)
(* the transport requests issued and the decodes attempted by the call.    *)
(***************************************************************************)
Slots == 1..MaxCalls

Ids == {"tmpl_123", "a/b"}
CloneNames == {"Copy"}
OptionValues ==
    { ListTemplatesOptions_new,
      ListTemplatesOptions_template_type(
          ListTemplatesOptions_limit(ListTemplatesOptions_new, 250), "Preset") }
CreateValues ==
    { CreateTemplateRequest_new("Welcome", "Hi {{name}}"),
      CreateTemplateRequest_published(
          CreateTemplateRequest_new("Welcome", ""), FALSE) }
UpdateValues ==
    { UpdateTemplateRequest_published(UpdateTemplateRequest_new, TRUE) }

\* the body argument handed to the client: none (get, delete), the unit
\* value &(), or a serializable value, held as its JSON object
NoBody == [kind |-> "none", v |-> << >>]
UnitBody == [kind |-> "unit", v |-> << >>]
JsonBody(obj) == [kind |-> "json", v |-> obj]

Request(verb, path, query, body) ==
    [verb |-> verb, path |-> path, query |-> query, body |-> body]

list_request(options) ==
    Request("GET", "/verify/templates", to_query_params(options), NoBody)

get_request(id) ==
    Request("GET", "/verify/templates/" \o id, << >>, NoBody)

create_request(request) ==
    Request("POST", "/verify/templates", << >>,
            JsonBody(SerializeCreateTemplateRequest(request)))

update_request(id, request) ==
    Request("PATCH", "/verify/templates/" \o id, << >>,
            JsonBody(SerializeUpdateTemplateRequest(request)))

delete_request(id) ==
    Request("DELETE", "/verify/templates/" \o id, << >>, NoBody)

publish_request(id) ==
    Request("POST", "/verify/templates/" \o id \o "/publish", << >>, UnitBody)

unpublish_request(id) ==
    Request("POST", "/verify/templates/" \o id \o "/unpublish", << >>, UnitBody)

\* Faulty variant: clone under the /verify prefix of the other operations.
clone_request_verify(id) ==
    Request("POST", "/verify/templates/" \o id \o "/clone", << >>, UnitBody)

clone_request(id) ==
    Request("POST", "/templates/" \o id \o "/clone", << >>, UnitBody)

clone_with_name_request(id, name) ==
    Request("POST", "/templates/" \o id \o "/clone", << >>,
            JsonBody(<< <<"name", JStr(name)>> >>))

\* the type each operation decodes the response body into
ResultType(op) ==
    CASE op = "list" -> "TemplateList"
      [] op = "delete" -> "DeleteTemplateResponse"
      [] OTHER -> "Template"

Args(id, name, options, create, update) ==
    [id |-> id, name |-> name, options |-> options, create |-> create,
     update |-> update]

NoArgs ==
    Args("", "", ListTemplatesOptions_new,
         CreateTemplateRequest_new("", ""), UpdateTemplateRequest_new)

NoRequest == Request("", "", << >>, NoBody)
NoTransport == [state |-> "pending", err |-> [kind |-> "", field |-> ""], body |-> << >>]
NoResult == [ok |-> FALSE, v |-> << >>, err |-> [kind |-> "", field |-> ""]]

IdleCall ==
    [pc |-> "idle", op |-> "", a |-> NoArgs, req |-> NoRequest, tr |-> NoTransport,
     result |-> NoResult, nreq |-> 0, ndec |-> 0]

\* what the transport may answer
TransportErrors == {[kind |-> "timeout", field |-> ""]}
Bodies(target) ==
    CASE target = "Template" ->
            {Append(RequiredTemplate, <<"type", JStr("preset")>>), Tail(RequiredTemplate)}
      [] target = "TemplateList" ->
            {<< <<"templates", JArr(<<JObj(RequiredTemplate)>>)>> >>, << >>}
      [] target = "DeleteTemplateResponse" ->
            {<< <<"success", JBool(TRUE)>> >>, << <<"success", JStr("yes")>> >>}

UnchangedButFacade ==
    UNCHANGED <<opts, optCalls, params, creq, ureq, reqCalls, payload, wire, decoded>>

\* Slots are taken in order, so that the slot number is the order in which
\* the caller issued the calls.
CanStart(c) ==
    /\ call[c].pc = "idle"
    /\ c > 1 => call[c - 1].pc # "idle"

\* Faulty variant: the path is kept in a buffer shared by the calls, so a
\* call issued while another is in flight sends that call's path.
IssueShared(c, op, a, req) ==
    LET shared == IF sent # << >> /\ call[sent[Len(sent)].slot].pc # "done"
                  THEN [req EXCEPT !.path = sent[Len(sent)].req.path]
                  ELSE req
    IN  /\ call' = [call EXCEPT ![c] =
                      [@ EXCEPT !.pc = "transport", !.op = op, !.a = a,
                                !.req = shared, !.nreq = @ + 1]]
        /\ sent' = Append(sent, [slot |-> c, req |-> shared])
        /\ UNCHANGED client
        /\ UnchangedButFacade

\* self.client.<verb>(path, ...): the request goes to the transport and the
\* call awaits it.  self is borrowed immutably: client stays as it is.
Issue(c, op, a, req) ==
    /\ call' = [call EXCEPT ![c] =
                  [@ EXCEPT !.pc = "transport", !.op = op, !.a = a, !.req = req,
                            !.nreq = @ + 1]]
    /\ sent' = Append(sent, [slot |-> c, req |-> req])
    /\ UNCHANGED client
    /\ UnchangedButFacade

List(c) ==
    /\ CanStart(c)
    /\ \E o \in OptionValues :
        Issue(c, "list", [NoArgs EXCEPT !.options = o], list_request(o))

Get(c) ==
    /\ CanStart(c)
    /\ \E id \in Ids :
        Issue(c, "get", [NoArgs EXCEPT !.id = id], get_request(id))

Create(c) ==
    /\ CanStart(c)
    /\ \E r \in CreateValues :
        Issue(c, "create", [NoArgs EXCEPT !.create = r], create_request(r))

Update(c) ==
    /\ CanStart(c)
    /\ \E id \in Ids, r \in UpdateValues :
        Issue(c, "update", [NoArgs EXCEPT !.id = id, !.update = r],
              update_request(id, r))

Delete(c) ==
    /\ CanStart(c)
    /\ \E id \in Ids :
        Issue(c, "delete", [NoArgs EXCEPT !.id = id], delete_request(id))

Publish(c) ==
    /\ CanStart(c)
    /\ \E id \in Ids :
        Issue(c, "publish", [NoArgs EXCEPT !.id = id], publish_request(id))

Unpublish(c) ==
    /\ CanStart(c)
    /\ \E id \in Ids :
        Issue(c, "unpublish", [NoArgs EXCEPT !.id = id], unpublish_request(id))

Clone(c) ==
    /\ CanStart(c)
    /\ \E id \in Ids :
        Issue(c, "clone", [NoArgs EXCEPT !.id = id], clone_request(id))

CloneWithName(c) ==
    /\ CanStart(c)
    /\ \E id \in Ids, n \in CloneNames :
        Issue(c, "clone_with_name", [NoArgs EXCEPT !.id = id, !.name = n],
              clone_with_name_request(id, n))

\* Faulty variant: the `?` forgotten, the call goes on to decode the body
\* of a response it never got.
propagate_and_decode(cs, e) ==
    [cs EXCEPT !.pc = "decoding", !.tr = [NoTransport EXCEPT !.state = "err", !.err = e]]

\* `.await?` on a failed transport call: the operation returns Err(e)
propagate_transport_error(cs, e) ==
    [cs EXCEPT !.pc = "done", !.tr = [NoTransport EXCEPT !.state = "err", !.err = e],
               !.result = [ok |-> FALSE, v |-> << >>, err |-> e]]

\* `Ok(response.json().await?)`: one decode of the body into the result
\* type; its error or its value is what the operation returns
decode_response(cs) ==
    LET d == from_json(ResultType(cs.op), cs.tr.body)
    IN  [cs EXCEPT !.pc = "done", !.ndec = @ + 1,
                   !.result = IF d.ok THEN [ok |-> TRUE, v |-> d.v, err |-> d.err]
                              ELSE [ok |-> FALSE, v |-> << >>, err |-> d.err]]

\* the transport call of slot c fails
TransportFails(c) ==
    /\ call[c].pc = "transport"
    /\ \E e \in TransportErrors :
        call' = [call EXCEPT ![c] = propagate_transport_error(@, e)]
    /\ UNCHANGED <<client, sent>>
    /\ UnchangedButFacade

\* the transport call of slot c returns a response
TransportResponds(c) ==
    /\ call[c].pc = "transport"
    /\ \E b \in Bodies(ResultType(call[c].op)) :
        call' = [call EXCEPT ![c] =
                   [@ EXCEPT !.pc = "decoding",
                             !.tr = [NoTransport EXCEPT !.state = "ok", !.body = b]]]
    /\ UNCHANGED <<client, sent>>
    /\ UnchangedButFacade

\* response.json() of slot c completes
DecodeResponse(c) ==
    /\ call[c].pc = "decoding"
    /\ call' = [call EXCEPT ![c] = decode_response(@)]
    /\ UNCHANGED <<client, sent>>
    /\ UnchangedButFacade

(***************************************************************************)
(* Initial states and specifications.  Each specification exercises one    *)
(* part of the file and leaves the variables of the other parts alone.     *)
(***************************************************************************)
IdleCalls == [c \in Slots |-> IdleCall]

InitOptions ==
    /\ opts = ListTemplatesOptions_new
    /\ optCalls = << >>
    /\ params = NoParams

InitRequests ==
    /\ \E n \in NameArgs, b \in BodyArgs : creq = CreateTemplateRequest_new(n, b)
    /\ ureq = UpdateTemplateRequest_new
    /\ reqCalls = << >>
    /\ payload = NoPayload

InitDecode ==
    \E target \in Targets :
        /\ wire \in Bases(target)
        /\ decoded = NoDecoded(target)

\* the parts a specification does not exercise
IdleOptions == opts = ListTemplatesOptions_new /\ optCalls = << >> /\ params = NoParams
IdleRequests ==
    /\ creq = CreateTemplateRequest_new("Welcome", "Hi {{name}}")
    /\ ureq = UpdateTemplateRequest_new
    /\ reqCalls = << >>
    /\ payload = NoPayload
IdleDecode == wire = << >> /\ decoded = NoDecoded("Template")

InitFacade ==
    /\ client = "sendly"
    /\ call = IdleCalls
    /\ sent = << >>

Init == IdleOptions /\ IdleRequests /\ IdleDecode /\ InitFacade

NextOptions ==
    \/ SetLimit
    \/ SetTemplateType
    \/ SetLocale
    \/ WriteLimitField
    \/ ToQueryParams

NextRequests ==
    \/ CreateSetLocale
    \/ CreateSetPublished
    \/ UpdateSetName
    \/ UpdateSetBody
    \/ UpdateSetLocale
    \/ UpdateSetPublished
    \/ SerializeCreate
    \/ SerializeUpdate

NextDecode ==
    \/ AddEntry
    \/ Decode

NextFacade ==
    \E c \in Slots :
        \/ List(c)
        \/ Get(c)
        \/ Create(c)
        \/ Update(c)
        \/ Delete(c)
        \/ Publish(c)
        \/ Unpublish(c)
        \/ Clone(c)
        \/ CloneWithName(c)
        \/ TransportFails(c)
        \/ TransportResponds(c)
        \/ DecodeResponse(c)

Next == NextFacade

Spec == Init /\ [][Next]_vars

InitOptionsSpec == InitOptions /\ IdleRequests /\ IdleDecode /\ InitFacade
InitRequestsSpec == IdleOptions /\ InitRequests /\ IdleDecode /\ InitFacade
InitDecodeSpec == IdleOptions /\ IdleRequests /\ InitDecode /\ InitFacade

SpecOptions == InitOptionsSpec /\ [][NextOptions]_vars
SpecRequests == InitRequestsSpec /\ [][NextRequests]_vars
SpecDecode == InitDecodeSpec /\ [][NextDecode]_vars

(***************************************************************************)
(* Claims about ListTemplatesOptions.                                      *)
(***************************************************************************)
OnlySetters(calls) == \A i \in DOMAIN calls : calls[i].m # "field:limit"
Called(calls, m) == \E i \in DOMAIN calls : calls[i].m = m
LastCall(calls, m) ==
    calls[CHOOSE i \in DOMAIN calls :
            /\ calls[i].m = m
            /\ \A j \in DOMAIN calls : calls[j].m = m => j <= i]

\* C1: for every ListTemplatesOptions value with limit = Some(L), the
\* "limit" pair of to_query_params is min(L, 100) in decimal, so that no
\* value of the type makes to_query_params emit a limit above 100.
C1_LimitPairIsClamped ==
    (params.done /\ opts.limit.some) =>
        /\ HasKey(params.v, "limit")
        /\ ValueAt(params.v, "limit") = U32ToString(Min(opts.limit.v, 100))

\* The keys to_query_params must emit after the setter calls in calls.
ExpectedParamKeys(calls) ==
    LET isSet(k) == \/ k = "limit" /\ Called(calls, "limit")
                    \/ k = "type" /\ Called(calls, "template_type")
                    \/ k = "locale" /\ Called(calls, "locale")
    IN  SelectSeq(<<"limit", "type", "locale">>, isSet)

WireToken == [Preset |-> "preset", Custom |-> "custom"]

\* the decimal strings of the limits a clamped sample argument can give
DecimalOf(n) ==
    CASE n = 0 -> "0" [] n = 1 -> "1" [] n = 7 -> "7" [] n = 99 -> "99"
      [] n = 100 -> "100"

\* C2: after any sequence of setter calls from new(), to_query_params has
\* exactly one pair per option a setter was called on, in the key order
\* limit, type, locale whatever the order of the calls; the type filter is
\* the lowercase token under the key "type"; no call gives the empty
\* sequence and limit(250).template_type(Preset) gives
\* [("limit","100"),("type","preset")], the limit pair holding the last
\* limit argument capped at 100.
C2_QueryParamsShape ==
    (params.done /\ OnlySetters(optCalls)) =>
        /\ Keys(params.v) = ExpectedParamKeys(optCalls)
        /\ Called(optCalls, "limit") =>
              ValueAt(params.v, "limit")
                  = DecimalOf(IF LastCall(optCalls, "limit").n > 100 THEN 100
                              ELSE LastCall(optCalls, "limit").n)
        /\ Called(optCalls, "template_type") =>
              ValueAt(params.v, "type")
                  = WireToken[LastCall(optCalls, "template_type").s]
        /\ Called(optCalls, "locale") =>
              ValueAt(params.v, "locale") = LastCall(optCalls, "locale").s
        /\ optCalls = << >> => params.v = << >>
        /\ optCalls = <<OptCall("limit", 250, ""),
                        OptCall("template_type", 0, "Preset")>> =>
              params.v = << <<"limit", "100">>, <<"type", "preset">> >>

\* C2 witness: the setters called in the order locale, template_type,
\* limit, and the pairs come out as limit, type, locale.
C2_Witness ==
    /\ params.done
    /\ optCalls = <<OptCall("locale", 0, "en"),
                    OptCall("template_type", 0, "Preset"),
                    OptCall("limit", 250, "")>>
    /\ params.v = << <<"limit", "100">>, <<"type", "preset">>,
                     <<"locale", "en">> >>

(***************************************************************************)
(* Claims about the request builders.                                      *)
(***************************************************************************)
WireKey(setter) == IF setter = "published" THEN "isPublished" ELSE setter

CallsOf(kind) == SelectSeq(reqCalls, LAMBDA c : c.k = kind)

ExpectedPayloadKeys(kind) ==
    (IF kind = "create" THEN {"name", "body"} ELSE {})
        \cup {WireKey(c.m) : c \in Range(CallsOf(kind))}

\* C3: the serialized object of a request built by setter calls has exactly
\* the required keys plus one key per optional field a setter was called on
\* (is_published under "isPublished"), each once and holding the value last
\* set, false and "" included; update's new() serializes to {}.
C3_PayloadKeys ==
    payload.done =>
        /\ Range(Keys(payload.v)) = ExpectedPayloadKeys(payload.kind)
        /\ Len(payload.v) = Cardinality(ExpectedPayloadKeys(payload.kind))
        /\ \A i \in DOMAIN payload.v : payload.v[i][2].t # "null"
        /\ \A m \in {"name", "body", "locale", "published"} :
              Called(CallsOf(payload.kind), m) =>
                  ValueAt(payload.v, WireKey(m))
                      = LastCall(CallsOf(payload.kind), m).v
        /\ payload.kind = "create" =>
              /\ ValueAt(payload.v, "name") = JStr(creq.name)
              /\ ValueAt(payload.v, "body") = JStr(creq.body)
        /\ (payload.kind = "update" /\ CallsOf("update") = << >>) =>
              payload.v = << >>

\* C3 witness: an update with only published(false) set serializes to
\* {"isPublished": false}.
C3_Witness ==
    /\ payload.done
    /\ payload.kind = "update"
    /\ reqCalls = <<ReqCall("update", "published", JBool(FALSE))>>
    /\ payload.v = << <<"isPublished", JBool(FALSE)>> >>

(***************************************************************************)
(* Claims about decoding.                                                  *)
(***************************************************************************)
\* The aliased fields: <<canonical key, legacy key>>.
AliasPairs(target) ==
    CASE target = "Template" ->
            { <<"template_type", "type">>, <<"is_default", "isDefault">>,
              <<"is_published", "isPublished">>, <<"created_at", "createdAt">>,
              <<"updated_at", "updatedAt">> }
      [] target = "TemplatePagination" -> { <<"has_more", "hasMore">> }
      [] OTHER -> {}

CanonKey(target, k) ==
    IF \E p \in AliasPairs(target) : p[2] = k
    THEN (CHOOSE p \in AliasPairs(target) : p[2] = k)[1]
    ELSE k

\* obj with every legacy key replaced by its canonical spelling
Canon(target, obj) ==
    [i \in DOMAIN obj |-> <<CanonKey(target, obj[i][1]), obj[i][2]>>]

SameOutcome(r1, r2) ==
    /\ r1.ok = r2.ok
    /\ r1.ok => r1.v = r2.v
    /\ ~r1.ok => r1.err = r2.err

Absent(target, obj, field) ==
    \A i \in DOMAIN obj : CanonKey(target, obj[i][1]) # field

\* the values a template_type entry of the wire object carries as strings
TypeStrings(obj) ==
    {obj[i][2].s : i \in {j \in DOMAIN obj :
                            /\ obj[j][1] \in {"template_type", "type"}
                            /\ obj[j][2].t = "string"}}

\* C6: a Template whose template_type (under either key) is a string other
\* than "preset" or "custom" does not decode; Custom is the result only of
\* "custom" or of an absent key; a decoded Template has one of the two
\* variants, and exactly one of is_preset and is_custom holds.
C6_UnknownTypeFails ==
    (decoded.done /\ decoded.target = "Template") =>
        /\ TypeStrings(wire) \ {"preset", "custom"} # {} => ~decoded.r.ok
        /\ decoded.r.ok =>
              /\ decoded.r.v.template_type \in {"Preset", "Custom"}
              /\ is_preset(decoded.r.v) # is_custom(decoded.r.v)
              /\ TypeStrings(wire) = {"preset"} => is_preset(decoded.r.v)
              /\ TypeStrings(wire) = {"custom"} => is_custom(decoded.r.v)
              /\ Absent("Template", wire, "template_type") => is_custom(decoded.r.v)

\* C6 witness: a complete template whose type is the string "bogus" has
\* been decoded.
C6_Witness ==
    /\ decoded.done
    /\ decoded.target = "Template"
    /\ wire = Append(RequiredTemplate, <<"type", JStr("bogus")>>)
    /\ ~decoded.r.ok

\* C7: decoding an object gives the same outcome as decoding it with each
\* legacy key replaced by the canonical key, for every aliased field of
\* Template and TemplatePagination; "type": "preset" gives Preset.
C7_AliasEquivalence ==
    decoded.done =>
        /\ SameOutcome(decoded.r, from_json(decoded.target, Canon(decoded.target, wire)))
        /\ (decoded.target = "Template" /\ decoded.r.ok
              /\ TypeStrings(wire) = {"preset"}) =>
                 decoded.r.v.template_type = "Preset"

\* C7 witness: a template carrying type and isPublished under the legacy
\* keys alone decodes to Preset and published.
C7_Witness ==
    /\ decoded.done
    /\ decoded.target = "Template"
    /\ wire = RequiredTemplate \o << <<"type", JStr("preset")>>,
                                    <<"isPublished", JBool(TRUE)>> >>
    /\ decoded.r.ok
    /\ decoded.r.v.template_type = "Preset"
    /\ decoded.r.v.is_published = TRUE

\* The defaults the data model states, per target and optional field.
StatedDefaults(target) ==
    CASE target = "Template" ->
            [template_type |-> "Custom", locale |-> NoneStr, variables |-> << >>,
             is_default |-> FALSE, is_published |-> FALSE,
             created_at |-> NoneStr, updated_at |-> NoneStr]
      [] target = "TemplateList" -> [pagination |-> [some |-> FALSE]]
      [] target = "TemplatePagination" -> [limit |-> 0, has_more |-> FALSE]
      [] target = "DeleteTemplateResponse" -> [message |-> NoneStr]

RequiredKeys(target) ==
    CASE target = "Template" -> {"id", "name", "body"}
      [] target = "TemplateList" -> {"templates"}
      [] target = "TemplatePagination" -> {}
      [] target = "DeleteTemplateResponse" -> {"success"}

IsDefault(target, field, v) ==
    IF target = "TemplateList" THEN ~v.some ELSE v = StatedDefaults(target)[field]

\* C8: an optional field missing from the wire object decodes to its stated
\* default and does not fail the decode; a missing required field does.
C8_MissingFieldsDefault ==
    decoded.done =>
        /\ decoded.r.ok =>
              \A f \in DOMAIN StatedDefaults(decoded.target) :
                  Absent(decoded.target, wire, f) =>
                      IsDefault(decoded.target, f, decoded.r.v[f])
        /\ (\E k \in RequiredKeys(decoded.target) : ~HasKey(wire, k)) => ~decoded.r.ok
        /\ (decoded.target = "Template" /\ wire = RequiredTemplate) => decoded.r.ok
        /\ (decoded.target = "TemplateList"
              /\ wire = << <<"templates", JArr(<<JObj(RequiredTemplate)>>)>> >>) =>
                 /\ decoded.r.ok
                 /\ ~decoded.r.v.pagination.some
                 /\ Len(decoded.r.v.templates) = 1
                 /\ decoded.r.v.templates[1].template_type = "Custom"
                 /\ decoded.r.v.templates[1].variables = << >>
        /\ (decoded.target = "TemplatePagination" /\ wire = << >>) =>
                 /\ decoded.r.ok
                 /\ decoded.r.v.limit = 0
                 /\ decoded.r.v.has_more = FALSE
        /\ (decoded.target = "DeleteTemplateResponse"
              /\ wire = << <<"success", JBool(TRUE)>> >>) =>
                 /\ decoded.r.ok
                 /\ decoded.r.v.success = TRUE
                 /\ decoded.r.v.message = NoneStr

\* C8 witness: the template with only id, name and body has been decoded.
C8_Witness ==
    /\ decoded.done
    /\ decoded.target = "Template"
    /\ wire = RequiredTemplate
    /\ decoded.r.ok
    /\ decoded.r.v.is_published = FALSE
    /\ decoded.r.v.template_type = "Custom"

\* Positions of the later entry of a canonical / legacy pair of keys.
PairSeconds(target, obj) ==
    {i \in DOMAIN obj : \E j \in 1..(i - 1), p \in AliasPairs(target) :
        {obj[j][1], obj[i][1]} = {p[1], p[2]}}

HasBothSpellings(target, obj) == PairSeconds(target, obj) # {}

FirstPairSecond(target, obj) ==
    CHOOSE i \in PairSeconds(target, obj) : \A j \in PairSeconds(target, obj) : i <= j

\* an entry whose value its field cannot take
IllTyped(target, e) ==
    /\ FieldOfKey(FieldsOf(target), e[1]) # 0
    /\ ~DecodeValue(FieldsOf(target)[FieldOfKey(FieldsOf(target), e[1])].ty, e[2]).ok

\* C10 as stated: an object with both spellings of a field always fails
\* with the duplicate-field error.
C10_BothKeysDuplicateError ==
    (decoded.done /\ HasBothSpellings(decoded.target, wire)) =>
        /\ ~decoded.r.ok
        /\ decoded.r.err.kind = "duplicate_field"

\* C10 amended: an object with both spellings of a field never decodes,
\* whatever the two values and their order; the error is the
\* duplicate-field error unless an entry before the second of the two keys
\* holds a value its field cannot take, which fails the decode first.
C10_BothKeysNeverDecode ==
    (decoded.done /\ HasBothSpellings(decoded.target, wire)) =>
        /\ ~decoded.r.ok
        /\ \/ decoded.r.err.kind = "duplicate_field"
           \/ \E i \in 1..(FirstPairSecond(decoded.target, wire) - 1) :
                 IllTyped(decoded.target, wire[i])

\* C10 witness: both keys carry the same valid value, canonical first, and
\* the decode has failed on the duplicate.
C10_Witness ==
    /\ decoded.done
    /\ decoded.target = "Template"
    /\ wire = RequiredTemplate \o << <<"template_type", JStr("preset")>>,
                                    <<"type", JStr("preset")>> >>
    /\ ~decoded.r.ok
    /\ decoded.r.err = [kind |-> "duplicate_field", field |-> "template_type"]

(***************************************************************************)
(* Claims about the facade.                                                *)
(***************************************************************************)
Started == {c \in Slots : call[c].pc # "idle"}

\* The operation table of the facade: verb, path and body kind.
ExpectedVerb ==
    [list |-> "GET", get |-> "GET", create |-> "POST", update |-> "PATCH",
     delete |-> "DELETE", publish |-> "POST", unpublish |-> "POST",
     clone |-> "POST", clone_with_name |-> "POST"]

ExpectedPath(op, id) ==
    CASE op \in {"list", "create"} -> "/verify/templates"
      [] op \in {"get", "update", "delete"} -> "/verify/templates/" \o id
      [] op = "publish" -> "/verify/templates/" \o id \o "/publish"
      [] op = "unpublish" -> "/verify/templates/" \o id \o "/unpublish"
      [] op \in {"clone", "clone_with_name"} -> "/templates/" \o id \o "/clone"

ExpectedBodyKind(op) ==
    CASE op \in {"list", "get", "delete"} -> "none"
      [] op \in {"publish", "unpublish", "clone"} -> "unit"
      [] op \in {"create", "update", "clone_with_name"} -> "json"

\* C4: every request a facade operation issues has the verb and the path
\* of the operation table with the id inserted verbatim; list carries the
\* options' query pairs and every other operation none; publish, unpublish
\* and clone carry the empty body and clone_with_name {"name": name}.
C4_OperationTable ==
    /\ \A c \in Started :
        LET cs == call[c]
        IN  /\ cs.req.verb = ExpectedVerb[cs.op]
            /\ cs.req.path = ExpectedPath(cs.op, cs.a.id)
            /\ cs.req.query = IF cs.op = "list" THEN to_query_params(cs.a.options)
                              ELSE << >>
            /\ cs.req.body.kind = ExpectedBodyKind(cs.op)
            /\ cs.op # "create" /\ cs.op # "update" /\ cs.op # "clone_with_name" =>
                  cs.req.body.v = << >>
            /\ cs.op = "clone_with_name" =>
                  cs.req.body.v = << <<"name", JStr(cs.a.name)>> >>
            /\ (cs.op = "get" /\ cs.a.id = "tmpl_123") =>
                  cs.req.path = "/verify/templates/tmpl_123"
            /\ (cs.op = "clone_with_name" /\ cs.a.id = "tmpl_123") =>
                  cs.req.path = "/templates/tmpl_123/clone"
    /\ \A i \in DOMAIN sent : sent[i].req = call[sent[i].slot].req

\* C4 witness: clone_with_name("a/b", "Copy") and get("tmpl_123") have both
\* reached the transport.
C4_Witness ==
    /\ Len(sent) = 2
    /\ call[1].op = "clone_with_name"
    /\ sent[1].req = Request("POST", "/templates/a/b/clone", << >>,
                             JsonBody(<< <<"name", JStr("Copy")>> >>))
    /\ call[2].op = "get"
    /\ sent[2].req = Request("GET", "/verify/templates/tmpl_123", << >>, NoBody)

SentBy(c) == {i \in DOMAIN sent : sent[i].slot = c}

\* C5: a call issues exactly one transport request and at most one decode,
\* the decode only after the transport succeeded; it returns the
\* transport's error without decoding, else the decode's error, else the
\* decoded value, and never an error of another origin.
C5_OneRequestOneDecode ==
    \A c \in Slots :
        LET cs == call[c]
            d == from_json(ResultType(cs.op), cs.tr.body)
        IN  /\ cs.nreq = Cardinality(SentBy(c))
            /\ cs.nreq = IF cs.pc = "idle" THEN 0 ELSE 1
            /\ cs.ndec <= 1
            /\ cs.ndec = 1 => cs.tr.state = "ok"
            /\ cs.pc = "done" =>
                  /\ cs.tr.state \in {"ok", "err"}
                  /\ cs.tr.state = "err" =>
                        /\ cs.ndec = 0
                        /\ ~cs.result.ok
                        /\ cs.result.err = cs.tr.err
                  /\ cs.tr.state = "ok" =>
                        /\ cs.ndec = 1
                        /\ cs.result.ok = d.ok
                        /\ d.ok => cs.result.v = d.v
                        /\ ~d.ok => cs.result.err = d.err

\* C5 witness: one call has returned the transport's error undecoded and
\* another has returned its decode error.
C5_Witness ==
    /\ call[1].pc = "done" /\ call[1].tr.state = "err"
    /\ call[1].result.err = [kind |-> "timeout", field |-> ""]
    /\ call[1].ndec = 0
    /\ call[2].pc = "done" /\ call[2].tr.state = "ok"
    /\ ~call[2].result.ok
    /\ call[2].result.err.kind = "missing_field"

\* the request an operation builds from its own arguments alone
RequestOf(op, a) ==
    CASE op = "list" -> list_request(a.options)
      [] op = "get" -> get_request(a.id)
      [] op = "create" -> create_request(a.create)
      [] op = "update" -> update_request(a.id, a.update)
      [] op = "delete" -> delete_request(a.id)
      [] op = "publish" -> publish_request(a.id)
      [] op = "unpublish" -> unpublish_request(a.id)
      [] op = "clone" -> clone_request(a.id)
      [] op = "clone_with_name" -> clone_with_name_request(a.id, a.name)

Independent ==
    /\ client = "sendly"
    /\ \A c \in Started : call[c].req = RequestOf(call[c].op, call[c].a)
    /\ \A c, d \in Started :
        /\ (call[c].op = call[d].op /\ call[c].a = call[d].a) =>
              call[c].req = call[d].req
        /\ (call[c].pc = "done" /\ call[d].pc = "done"
              /\ call[c].op = call[d].op /\ call[c].tr = call[d].tr) =>
              call[c].result = call[d].result

OneCallPerStep ==
    /\ client' = client
    /\ \A c \in Slots :
        /\ call'[c] # call[c] => \A d \in Slots \ {c} : call'[d] = call[d]
        /\ call[c].pc # "idle" =>
              /\ call'[c].op = call[c].op
              /\ call'[c].a = call[c].a
              /\ call'[c].req = call[c].req

\* C9: under every interleaving of concurrent calls, the request a call
\* sends is a function of its own arguments and its result a function of
\* its own transport response; a step of one call leaves every other call
\* as it was, and no step changes the client reference.
C9_CallsIndependent == []Independent /\ [][OneCallPerStep]_vars

\* C9 witness: two calls of the same operation are in flight at once with
\* different arguments, the second further along than the first.
C9_Witness ==
    /\ call[1].op = "get" /\ call[1].pc = "transport" /\ call[1].a.id = "tmpl_123"
    /\ call[2].op = "get" /\ call[2].pc = "done" /\ call[2].a.id = "a/b"
    /\ call[2].result.ok

====
